---- MODULE Spec2Model ----
\* Model of src/mcp_server.py: the in-memory room context store, the /context
\* form endpoint, the JSON-RPC /mcp endpoint with its two tools, the Gmail
\* notification helper and the upload text extractor.
EXTENDS Integers, Sequences, FiniteSets, TLC

\* ---------------------------------------------------------------------
\* Values and input domains
\* ---------------------------------------------------------------------

\* Python None
NoneV == "<None>"

\* HR_EMAIL default (os.getenv("HR_EMAIL", "hr@example.com"))
HR_EMAIL == "hr@example.com"

\* JSON-RPC error code used by mcp_endpoint's except branch
InternalErrorCode == -32603

\* Bound on the number of successful set-context calls (clock for created_at)
MaxClock == 2

Rooms == {"r1", "r2"}
RoomNameInputs == {""} \cup Rooms
CandNames == {"", "n1"}
Emails == {"", "e1"}
HrEmails == {"", "h1"}
\* A text is the first len characters of an unbounded string named base
Text(base, len) == [base |-> base, len |-> len]

\* Python slicing t[:n]
Prefix(t, n) == Text(t.base, IF t.len < n THEN t.len ELSE n)

NoText == Text("", 0)

Resumes == {NoText, Text("t1", 5)}

\* ---------------------------------------------------------------------
\* State
\* ---------------------------------------------------------------------

VARIABLES
  room_context,   \* Python dict room -> context dict (a TLA+ function)
  clock,          \* successive datetime.utcnow() values used for created_at
  composio_ok,    \* module-level composio client initialised
  account_id,     \* CONNECTED_ACCOUNT_ID_GMAIL non-empty
  passed,         \* room names ever passed to set-context
  lastSet,        \* room -> form payload of the most recent accepted set-context
  prevSet,        \* room -> form payload of the accepted set-context before that
  lastOp,         \* which handler ran last
  req,            \* last /mcp request body
  resp,           \* last /mcp HTTP response
  sends,          \* _send_gmail calls made by the last handler, in order
  ctxStatus,      \* HTTP status of the last /context call
  xin,            \* last _extract_text_from_upload input
  xout,           \* last _extract_text_from_upload outcome
  sin,            \* last standalone _send_gmail input
  sout,           \* last standalone _send_gmail outcome
  up,             \* last /upload response with the full extracted text
  setRoom         \* roomName of the last accepted set-context ("" otherwise)

vars == <<room_context, clock, composio_ok, account_id, passed, lastSet, prevSet, lastOp,
          req, resp, sends, ctxStatus, xin, xout, sin, sout, up, setRoom>>

\* The dict built by set_context
MakeContext(roomName, name, email, hrEmail, resumeText, ts) ==
  [room_name |-> roomName, name |-> name, email |-> email, phone |-> "",
   job_title |-> "", job_description |-> "", resume_text |-> resumeText,
   hr_email |-> hrEmail, created_at |-> ts]

\* Placeholder context in records that carry no context
EmptyCtx == MakeContext("", "", "", "", NoText, -1)

Payload(roomName, name, email, hrEmail, resumeText) ==
  [roomName |-> roomName, name |-> name, email |-> email,
   hrEmail |-> hrEmail, resumeText |-> resumeText]

NoPayload == Payload("", "", "", "", NoText)

\* Python dict assignment d[k] = v
DictPut_Merge(d, k, v) ==
  [x \in DOMAIN d \cup {k} |->
     IF x = k
       THEN IF k \in DOMAIN d
              THEN [f \in DOMAIN v |-> IF f # "created_at" /\ v[f] = EmptyCtx[f] THEN d[k][f] ELSE v[f]]
              ELSE v
       ELSE d[x]]

DictPut_All(d, k, v) == [x \in DOMAIN d \cup {k} |-> v]

DictPut(d, k, v) == [x \in DOMAIN d \cup {k} |-> IF x = k THEN v ELSE d[x]]

NoResp == [kind |-> "none", status |-> 0, id |-> NoneV, rtag |-> "none",
           ctx |-> EmptyCtx, success |-> FALSE, error |-> "",
           emails |-> <<>>, code |-> 0, msg |-> ""]

NoReq == [kind |-> "none", method |-> NoneV, id |-> NoneV,
          pkind |-> "none", name |-> NoneV, room |-> NoneV, transcript |-> NoneV]

NoX == [filename |-> <<>>, data |-> "none", lib |-> "none"]
NoXOut == [raised |-> FALSE, val |-> ""]
NoSendIn == [to |-> "", outcome |-> "none"]
NoSendOut == [raised |-> FALSE, success |-> FALSE, result |-> "", error |-> "", to |-> ""]
NoUp == [status |-> 0, text |-> NoText, full |-> NoText]

Init ==
  /\ room_context = <<>>
  /\ clock = 0
  /\ composio_ok \in BOOLEAN
  /\ account_id \in BOOLEAN
  /\ passed = {}
  /\ lastSet = [r \in Rooms |-> NoPayload]
  /\ prevSet = [r \in Rooms |-> NoPayload]
  /\ lastOp = "none"
  /\ req = NoReq
  /\ resp = NoResp
  /\ sends = <<>>
  /\ ctxStatus = 0
  /\ xin = NoX
  /\ xout = NoXOut
  /\ sin = NoSendIn
  /\ sout = NoSendOut
  /\ up = NoUp
  /\ setRoom = ""

\* ---------------------------------------------------------------------
\* POST /context  (set_context)
\* ---------------------------------------------------------------------

\* Validation of set_context: roomName, name and email must be non-empty
SetContextValid(roomName, name, email) ==
  roomName # "" /\ name # "" /\ email # ""

\* The handler, with the resumeText form values drawn from resumes
SetContextWith(resumes) ==
  \E roomName \in RoomNameInputs, name \in CandNames, email \in Emails,
     hrEmail \in HrEmails, resumeText \in resumes :
    /\ passed' = passed \cup ({roomName} \ {""})
    /\ lastOp' = "set"
    /\ req' = NoReq /\ resp' = NoResp /\ sends' = <<>>
    /\ xin' = NoX /\ xout' = NoXOut /\ sin' = NoSendIn /\ sout' = NoSendOut
    /\ UNCHANGED <<composio_ok, account_id, up>>
    /\ IF SetContextValid(roomName, name, email)
         THEN /\ clock < MaxClock
              /\ room_context' = DictPut(room_context, roomName,
                     MakeContext(roomName, name, email, hrEmail, resumeText, clock))
              /\ clock' = clock + 1
              /\ lastSet' = [lastSet EXCEPT ![roomName] =
                               Payload(roomName, name, email, hrEmail, resumeText)]
              /\ prevSet' = [prevSet EXCEPT ![roomName] = lastSet[roomName]]
              /\ ctxStatus' = 200
              /\ setRoom' = roomName
         ELSE /\ ctxStatus' = 400
              /\ setRoom' = ""
              /\ UNCHANGED <<room_context, clock, lastSet, prevSet>>

SetContext == SetContextWith(Resumes)

\* ---------------------------------------------------------------------
\* _send_gmail(to_email, subject, body)
\* outcome: what composio.tools.execute does ("ok" returns, "exc" raises
\* an Exception subclass); only consulted when composio is configured.
\* ---------------------------------------------------------------------

SendOutcomes == {"ok", "exc"}

SendGmail_Raises(composio, accountId, to, outcome) ==
  IF ~composio \/ ~accountId
    THEN [raised |-> FALSE, success |-> TRUE,
          result |-> "MOCKED: Email would be sent to " \o to, error |-> "", to |-> to]
    ELSE IF outcome = "ok"
      THEN [raised |-> FALSE, success |-> TRUE, result |-> "GMAIL_SEND_EMAIL result",
            error |-> "", to |-> to]
      ELSE [raised |-> TRUE, success |-> FALSE, result |-> "",
            error |-> "provider error message", to |-> to]

SendGmail(composio, accountId, to, outcome) ==
  IF ~composio \/ ~accountId
    THEN [raised |-> FALSE, success |-> TRUE,
          result |-> "MOCKED: Email would be sent to " \o to, error |-> "", to |-> to]
    ELSE IF outcome = "ok"
      THEN [raised |-> FALSE, success |-> TRUE, result |-> "GMAIL_SEND_EMAIL result",
            error |-> "", to |-> to]
      ELSE [raised |-> FALSE, success |-> FALSE, result |-> "",
            error |-> "provider error message", to |-> to]

\* ---------------------------------------------------------------------
\* InterviewMCP.call_tool(params)
\* ---------------------------------------------------------------------

FetchTool == "fetch_interview_context"
FinishTool == "finish_and_email_transcript"

\* Python truthiness of the room_name argument (None or "")
Truthy(v) == v # NoneV /\ v # ""

Res(tag, ctx, success, error, emails) ==
  [tag |-> tag, ctx |-> ctx, success |-> success, error |-> error, emails |-> emails]

NoRes == Res("none", EmptyCtx, FALSE, "", <<>>)

Raise(msg, s) == [raised |-> TRUE, msg |-> msg, res |-> NoRes, sends |-> s]
Return(res, s) == [raised |-> FALSE, msg |-> "", res |-> res, sends |-> s]

\* The finish branch once a candidate email is known: both sends, then the result
FinishSend_ShortCircuit(room, ctx, composio, accountId, o1, o2) ==
  LET cand == SendGmail(composio, accountId, ctx.email, o1)
      hrTo == IF ctx.hr_email # "" THEN ctx.hr_email ELSE HR_EMAIL
      hr == SendGmail(composio, accountId, hrTo, o2)
  IN IF ~cand.success
       THEN Return(Res("finish", EmptyCtx, TRUE, "", [k \in {"candidate"} |-> cand]), <<cand>>)
     ELSE Return(Res("finish", EmptyCtx, TRUE, "",
                     [k \in {"candidate", "hr"} |-> IF k = "candidate" THEN cand ELSE hr]),
                 <<cand, hr>>)

FinishSend(room, ctx, composio, accountId, o1, o2) ==
  LET cand == SendGmail(composio, accountId, ctx.email, o1)
      hrTo == IF ctx.hr_email # "" THEN ctx.hr_email ELSE HR_EMAIL
      hr == SendGmail(composio, accountId, hrTo, o2)
  IN IF cand.raised THEN Raise("send error", <<cand>>)
     ELSE IF hr.raised THEN Raise("send error", <<cand, hr>>)
     ELSE Return(Res("finish", EmptyCtx, TRUE, "",
                     [k \in {"candidate", "hr"} |-> IF k = "candidate" THEN cand ELSE hr]),
                 <<cand, hr>>)

\* str() of a Python value as used in the f-string error messages
PyStr(v) == IF v = NoneV THEN "None" ELSE v

\* Branch name == "fetch_interview_context"
FetchContext_KeyError(room, store) ==
  IF ~Truthy(room) THEN Raise("room_name is required", <<>>)
  ELSE IF room \notin DOMAIN store THEN Raise("KeyError: " \o room, <<>>)
  ELSE Return(Res("ctx", store[room], FALSE, "", <<>>), <<>>)

FetchContext_NoRoomCheck(room, store) ==
  IF room \notin DOMAIN store THEN Return(Res("null", EmptyCtx, FALSE, "", <<>>), <<>>)
  ELSE Return(Res("ctx", store[room], FALSE, "", <<>>), <<>>)

FetchContext(room, store) ==
  IF ~Truthy(room) THEN Raise("room_name is required", <<>>)
  ELSE IF room \notin DOMAIN store THEN Return(Res("null", EmptyCtx, FALSE, "", <<>>), <<>>)
  ELSE Return(Res("ctx", store[room], FALSE, "", <<>>), <<>>)

\* Branch name == "finish_and_email_transcript"
FinishAndEmail_NoEmailCheck(room, store, composio, accountId, o1, o2) ==
  IF ~Truthy(room) THEN Raise("room_name is required", <<>>)
  ELSE FinishSend(room, IF room \in DOMAIN store THEN store[room] ELSE EmptyCtx,
                  composio, accountId, o1, o2)

FinishAndEmail(room, store, composio, accountId, o1, o2) ==
  IF ~Truthy(room) THEN Raise("room_name is required", <<>>)
  ELSE IF room \notin DOMAIN store \/ store[room].email = ""
    THEN Return(Res("finish", EmptyCtx, FALSE, "Candidate email not found", <<>>), <<>>)
  ELSE FinishSend(room, store[room], composio, accountId, o1, o2)

\* Final else branch: raise ValueError(f"Unknown tool: {name}")
UnknownTool_Null(name) == Return(Res("null", EmptyCtx, FALSE, "", <<>>), <<>>)

UnknownTool(name) == Raise("Unknown tool: " \o PyStr(name), <<>>)

\* p.pkind: "none" (params null/absent), "emptylist" ([]), "list" (non-empty
\* JSON array), "dict"; p.name / p.room / p.transcript are NoneV when absent.
CallTool(p, store, composio, accountId, o1, o2) ==
  IF p.pkind = "list"
    THEN Raise("'list' object has no attribute 'get'", <<>>)
  ELSE
  LET name == IF p.pkind = "dict" THEN p.name ELSE NoneV
      room == IF p.pkind = "dict" THEN p.room ELSE NoneV
  IN
  IF name = FetchTool THEN FetchContext(room, store)
  ELSE IF name = FinishTool THEN FinishAndEmail(room, store, composio, accountId, o1, o2)
  ELSE UnknownTool(name)

\* ---------------------------------------------------------------------
\* POST /mcp  (mcp_endpoint)
\* b.kind: "invalid_json" (request.json() raises), "non_object" (a JSON
\* value without .get), "object".
\* ---------------------------------------------------------------------

Resp(kind, status, id, res, code, msg) ==
  [kind |-> kind, status |-> status, id |-> id, rtag |-> res.tag, ctx |-> res.ctx,
   success |-> res.success, error |-> res.error, emails |-> res.emails,
   code |-> code, msg |-> msg]

\* The except branch reads req_id, which is unbound when request.json() or
\* payload.get raised: UnboundLocalError escapes and Starlette answers a bare 500.
Fault == Resp("fault", 500, NoneV, NoRes, 0, "Internal Server Error")

McpEndpoint(b, store, composio, accountId, o1, o2) ==
  IF b.kind # "object" THEN [resp |-> Fault, sends |-> <<>>]
  ELSE IF b.method = "initialize"
    THEN [resp |-> Resp("result", 200, b.id, Res("init", EmptyCtx, FALSE, "", <<>>), 0, ""),
          sends |-> <<>>]
  ELSE IF b.method = "list_tools"
    THEN [resp |-> Resp("result", 200, b.id, Res("tools", EmptyCtx, FALSE, "", <<>>), 0, ""),
          sends |-> <<>>]
  ELSE IF b.method = "call_tool"
    THEN LET ct == CallTool(b, store, composio, accountId, o1, o2)
         IN IF ct.raised
              THEN [resp |-> Resp("error", 500, b.id, NoRes, InternalErrorCode, ct.msg),
                    sends |-> ct.sends]
              ELSE [resp |-> Resp("result", 200, b.id, ct.res, 0, ""), sends |-> ct.sends]
  ELSE [resp |-> Resp("error", 500, b.id, NoRes, InternalErrorCode,
                      "Method not found: " \o PyStr(b.method)),
        sends |-> <<>>]

Methods == {"initialize", "list_tools", "call_tool", "bogus", NoneV}
ReqIds == {"id1", NoneV}
ToolNames == {FetchTool, FinishTool, "other_tool", NoneV}
RoomArgs == {NoneV, ""} \cup Rooms
Transcripts == {NoneV, "tx"}

Body(kind, method, id, pkind, name, room, transcript) ==
  [kind |-> kind, method |-> method, id |-> id, pkind |-> pkind,
   name |-> name, room |-> room, transcript |-> transcript]

Bodies ==
  {Body("invalid_json", NoneV, NoneV, "none", NoneV, NoneV, NoneV),
   Body("non_object", NoneV, NoneV, "none", NoneV, NoneV, NoneV)}
  \cup {Body("object", m, i, "none", NoneV, NoneV, NoneV) : m \in Methods, i \in ReqIds}
  \cup {Body("object", "call_tool", i, k, NoneV, NoneV, NoneV) :
          i \in ReqIds, k \in {"emptylist", "list"}}
  \cup {Body("object", "call_tool", "id1", "dict", n, r, t) :
          n \in ToolNames, r \in RoomArgs, t \in Transcripts}

\* Provider outcomes matter only when composio is configured
ProviderOutcomes ==
  IF composio_ok /\ account_id THEN SendOutcomes ELSE {"ok"}

\* The handler, with request bodies drawn from bodies
McpWith(bodies) ==
  \E b \in bodies, o1 \in ProviderOutcomes, o2 \in ProviderOutcomes :
    LET out == McpEndpoint(b, room_context, composio_ok, account_id, o1, o2)
    IN /\ lastOp' = "mcp"
       /\ req' = b
       /\ resp' = out.resp
       /\ sends' = out.sends
       /\ ctxStatus' = 0
       /\ xin' = NoX /\ xout' = NoXOut /\ sin' = NoSendIn /\ sout' = NoSendOut
       /\ setRoom' = ""
    /\ UNCHANGED <<room_context, clock, composio_ok, account_id, passed, lastSet, prevSet, up>>

Mcp == McpWith(Bodies)

\* ---------------------------------------------------------------------
\* _extract_text_from_upload(filename, data)
\* A filename is a sequence of characters; data is the kind of bytes
\* uploaded; lib is what the parsing library does with bytes that are not
\* of its format ("parse": returns empty text, "raise": raises an Exception).
\* ---------------------------------------------------------------------

FileNames ==
  {<<>>, <<"a", ".", "p", "d", "f">>, <<"A", ".", "P", "D", "F">>,
   <<"a", ".", "d", "o", "c", "x">>, <<"a", ".", "t", "x", "t">>,
   <<"a", ".", "m", "d">>, <<"a", ".", "b", "i", "n">>}
DataKinds == {"pdf_bytes", "docx_bytes", "utf8_bytes", "blank_bytes", "corrupt_bytes", "empty_bytes"}
LibOutcomes == {"parse", "raise"}

\* str.lower on the characters of FileNames
LowerChar(c) ==
  CASE c = "A" -> "a" [] c = "P" -> "p" [] c = "D" -> "d" [] c = "F" -> "f"
    [] OTHER -> c
Lower(s) == [i \in 1..Len(s) |-> LowerChar(s[i])]

EndsWith(s, suf) ==
  Len(s) >= Len(suf) /\ SubSeq(s, Len(s) - Len(suf) + 1, Len(s)) = suf

\* pdfminer extract_text(fp).strip()
PdfExtract(data, lib) ==
  IF data = "pdf_bytes" THEN [raised |-> FALSE, val |-> "pdf text"]
  ELSE IF lib = "raise" THEN [raised |-> TRUE, val |-> "PDFSyntaxError"]
  ELSE [raised |-> FALSE, val |-> ""]

\* docx.Document(fp) and the joined non-empty paragraphs
DocxExtract(data) ==
  IF data = "docx_bytes" THEN [raised |-> FALSE, val |-> "docx text"]
  ELSE [raised |-> TRUE, val |-> "PackageNotFoundError"]

\* data.decode("utf-8", errors="ignore").strip()
Utf8Decode(data) ==
  CASE data = "utf8_bytes" -> "plain text"
    [] data \in {"blank_bytes", "empty_bytes"} -> ""
    [] OTHER -> "garbled text"

ExtractTextFromUpload_NoCatch(filename, data, lib) ==
  IF filename = <<>> THEN [raised |-> FALSE, val |-> ""]
  ELSE
  LET name == Lower(filename)
  IN IF EndsWith(name, <<".", "p", "d", "f">>) THEN PdfExtract(data, lib)
     ELSE IF EndsWith(name, <<".", "d", "o", "c", "x">>) THEN DocxExtract(data)
     ELSE [raised |-> FALSE, val |-> Utf8Decode(data)]

ExtractTextFromUpload(filename, data, lib) ==
  IF filename = <<>> THEN [raised |-> FALSE, val |-> ""]
  ELSE
  LET name == Lower(filename)
      r == IF EndsWith(name, <<".", "p", "d", "f">>) THEN PdfExtract(data, lib)
           ELSE IF EndsWith(name, <<".", "d", "o", "c", "x">>) THEN DocxExtract(data)
           ELSE [raised |-> FALSE, val |-> Utf8Decode(data)]
  IN IF r.raised THEN [raised |-> FALSE, val |-> "Error reading file: " \o r.val]
     ELSE r

Extract ==
  \E f \in FileNames, d \in DataKinds, lib \in LibOutcomes :
    /\ lastOp' = "extract"
    /\ xin' = [filename |-> f, data |-> d, lib |-> lib]
    /\ xout' = ExtractTextFromUpload(f, d, lib)
    /\ req' = NoReq /\ resp' = NoResp /\ sends' = <<>> /\ ctxStatus' = 0
    /\ sin' = NoSendIn /\ sout' = NoSendOut
    /\ setRoom' = ""
    /\ UNCHANGED <<room_context, clock, composio_ok, account_id, passed, lastSet, prevSet, up>>

\* ---------------------------------------------------------------------
\* POST /upload  (upload_resume)
\* n is the length of the text the uploaded bytes carry after strip()
\* (0: only whitespace).
\* ---------------------------------------------------------------------

\* text[:200000]
MaxResumeChars == 200000

TextLens == {0, 5, MaxResumeChars, MaxResumeChars + 1}

\* Length of the placeholder "Error reading file: ..."
PlaceholderLen == 40

\* The text _extract_text_from_upload returns, as a Text
ExtractedText(val, n) ==
  IF val = "" THEN NoText
  ELSE IF val \in {"pdf text", "docx text", "plain text", "garbled text"}
    THEN IF n = 0 THEN NoText ELSE Text(val, n)
  ELSE Text(val, PlaceholderLen)

\* The body of upload_resume's try block; raised: an HTTPException escapes it
UploadBody_NoTrunc(filename, data, lib, n) ==
  IF data = "empty_bytes"
    THEN [raised |-> TRUE, status |-> 400, text |-> NoText, full |-> NoText]
  ELSE LET t == ExtractedText(ExtractTextFromUpload(filename, data, lib).val, n)
       IN IF t.len = 0
            THEN [raised |-> TRUE, status |-> 400, text |-> NoText, full |-> t]
            ELSE [raised |-> FALSE, status |-> 200, text |-> t, full |-> t]

UploadBody(filename, data, lib, n) ==
  IF data = "empty_bytes"
    THEN [raised |-> TRUE, status |-> 400, text |-> NoText, full |-> NoText]
  ELSE LET t == ExtractedText(ExtractTextFromUpload(filename, data, lib).val, n)
       IN IF t.len = 0
            THEN [raised |-> TRUE, status |-> 400, text |-> NoText, full |-> t]
            ELSE [raised |-> FALSE, status |-> 200, text |-> Prefix(t, MaxResumeChars),
                  full |-> t]

\* The whole handler: the filename check precedes the try; the try's
\* "except Exception" also catches the HTTPException(400)s raised inside it
\* and answers 500.
UploadResume(filename, data, lib, n) ==
  IF filename = <<>>
    THEN [status |-> 400, text |-> NoText, full |-> NoText]
  ELSE LET b == UploadBody(filename, data, lib, n)
       IN IF b.raised
            THEN [status |-> 500, text |-> NoText, full |-> b.full]
            ELSE [status |-> 200, text |-> b.text, full |-> b.full]

\* The handler, with its inputs drawn from the given sets
UploadWith(files, datas, libs, lens) ==
  \E f \in files, d \in datas, lib \in libs, n \in lens :
    /\ lastOp' = "upload"
    /\ xin' = [filename |-> f, data |-> d, lib |-> lib]
    /\ up' = UploadResume(f, d, lib, n)
    /\ xout' = NoXOut
    /\ req' = NoReq /\ resp' = NoResp /\ sends' = <<>> /\ ctxStatus' = 0
    /\ sin' = NoSendIn /\ sout' = NoSendOut
    /\ setRoom' = ""
    /\ UNCHANGED <<room_context, clock, composio_ok, account_id, passed, lastSet, prevSet>>

Upload == UploadWith(FileNames, DataKinds, LibOutcomes, TextLens)

\* A direct call of _send_gmail
SendMail ==
  \E to \in {"e1", "h1"}, o \in ProviderOutcomes :
    /\ lastOp' = "send"
    /\ sin' = [to |-> to, outcome |-> o]
    /\ sout' = SendGmail(composio_ok, account_id, to, o)
    /\ sends' = <<sout'>>
    /\ req' = NoReq /\ resp' = NoResp /\ ctxStatus' = 0
    /\ xin' = NoX /\ xout' = NoXOut
    /\ setRoom' = ""
    /\ UNCHANGED <<room_context, clock, composio_ok, account_id, passed, lastSet, prevSet, up>>

\* The /context and /mcp handlers acting on the shared store
Next == SetContext \/ Mcp

\* The two stateless helpers, called directly
FnNext == Extract \/ SendMail \/ Upload

Spec == Init /\ [][Next]_vars

FnSpec == Init /\ [][FnNext]_vars

\* Upload a resume, pass the returned text as resumeText to /context, fetch it
SetContextUploaded == SetContextWith({up.text})

\* A plain-text upload whose text has any of the lengths of TextLens
UploadTxt == UploadWith({<<"a", ".", "t", "x", "t">>}, {"utf8_bytes"}, {"parse"}, TextLens)

\* fetch_interview_context requests for the rooms
FetchRooms == McpWith({Body("object", "call_tool", "id1", "dict", FetchTool, r, NoneV) : r \in Rooms})

RtNext == UploadTxt \/ SetContextUploaded \/ FetchRooms

RtSpec == Init /\ [][RtNext]_vars

\* ---------------------------------------------------------------------
\* Properties
\* ---------------------------------------------------------------------

\* The tool name call_tool sees for a request body
ReqToolName(b) == IF b.pkind = "dict" THEN b.name ELSE NoneV

IsCallTool(b) == b.kind = "object" /\ b.method = "call_tool"

IsFetch(b) == IsCallTool(b) /\ b.pkind = "dict" /\ b.name = FetchTool

IsFinish(b) == IsCallTool(b) /\ b.pkind = "dict" /\ b.name = FinishTool

\* C1: every POST /mcp, whatever its body, is answered with a JSON-RPC
\* response (result or error object) whose id is the request's id.
C1_EchoesId ==
  lastOp = "mcp" => /\ resp.kind \in {"result", "error"}
                    /\ resp.id = req.id
                    /\ resp.kind = "error" => resp.code # 0

\* C2: fetch_interview_context for a room never passed to set-context
\* returns a successful null result, not an error.
C2_UnknownRoomNull ==
  (lastOp = "mcp" /\ IsFetch(req) /\ req.room \in Rooms \ passed)
    => resp.kind = "result" /\ resp.rtag = "null"

C2_Witness ==
  lastOp = "mcp" /\ IsFetch(req) /\ req.room \in Rooms \ passed /\ passed # {}

\* The context fields of a set-context payload, created_at aside
PayloadFields(pl) ==
  [room_name |-> pl.roomName, name |-> pl.name, email |-> pl.email, phone |-> "",
   job_title |-> "", job_description |-> "", resume_text |-> pl.resumeText,
   hr_email |-> pl.hrEmail]

CtxFields(c) ==
  [room_name |-> c.room_name, name |-> c.name, email |-> c.email, phone |-> c.phone,
   job_title |-> c.job_title, job_description |-> c.job_description,
   resume_text |-> c.resume_text, hr_email |-> c.hr_email]

\* C3: fetch_interview_context(R) returns exactly the fields of the most
\* recent accepted set-context for R, nothing merged from earlier ones.
C3_LastWriteWins ==
  (lastOp = "mcp" /\ IsFetch(req) /\ req.room \in Rooms /\ lastSet[req.room] # NoPayload)
    => resp.kind = "result" /\ resp.rtag = "ctx"
       /\ CtxFields(resp.ctx) = PayloadFields(lastSet[req.room])

C3_Witness ==
  /\ lastOp = "mcp" /\ IsFetch(req) /\ req.room \in Rooms
  /\ prevSet[req.room] # NoPayload
  /\ prevSet[req.room] # lastSet[req.room]
  /\ prevSet[req.room].hrEmail # ""
  /\ lastSet[req.room].hrEmail = ""

\* C4: call_tool with a tool name other than the two registered ones
\* yields an RPC error object, never a successful result.
C4_UnknownToolError ==
  (lastOp = "mcp" /\ IsCallTool(req) /\ req.pkind # "list"
     /\ ReqToolName(req) \notin {FetchTool, FinishTool})
    => resp.kind = "error"

C4_Witness ==
  lastOp = "mcp" /\ IsCallTool(req) /\ req.pkind = "dict"
  /\ ReqToolName(req) = "other_tool"

\* C5: either registered tool with room_name absent or empty yields an RPC
\* error object ("room_name is required"), not the null result of a miss.
C5_MissingRoomError ==
  (lastOp = "mcp" /\ (IsFetch(req) \/ IsFinish(req)) /\ req.room \in {NoneV, ""})
    => resp.kind = "error" /\ resp.rtag = "none" /\ resp.msg = "room_name is required"

C5_Witness ==
  lastOp = "mcp" /\ IsFetch(req) /\ req.room = NoneV

\* C6: an unrecognised method yields an error whose code is the
\* "method not found" code, distinct from the internal-error code.
C6_MethodNotFoundCode ==
  (lastOp = "mcp" /\ req.kind = "object"
     /\ req.method \notin {"initialize", "list_tools", "call_tool"})
    => resp.kind = "error" /\ resp.code # InternalErrorCode

\* C7: finish_and_email_transcript for a room without candidate email returns
\* a successful {success:false, error} result and sends nothing.
C7_NoEmailFailure ==
  (lastOp = "mcp" /\ IsFinish(req) /\ req.room \in Rooms
     /\ (req.room \notin DOMAIN room_context \/ room_context[req.room].email = ""))
    => /\ resp.kind = "result" /\ resp.rtag = "finish"
       /\ ~resp.success /\ resp.error # ""
       /\ sends = <<>>

C7_Witness ==
  lastOp = "mcp" /\ IsFinish(req) /\ req.room \in Rooms
  /\ req.room \notin DOMAIN room_context

\* C8: finish_and_email_transcript for a room with a candidate email sends
\* to the candidate and to HR whatever either outcome, and returns
\* success:true with both per-recipient results.
C8_BothSends ==
  (lastOp = "mcp" /\ IsFinish(req) /\ req.room \in DOMAIN room_context
     /\ room_context[req.room].email # "")
    => /\ resp.kind = "result" /\ resp.rtag = "finish" /\ resp.success
       /\ Len(sends) = 2
       /\ sends[1].to = room_context[req.room].email
       /\ DOMAIN resp.emails = {"candidate", "hr"}
       /\ resp.emails["candidate"] = sends[1]
       /\ resp.emails["hr"] = sends[2]

C8_Witness ==
  lastOp = "mcp" /\ IsFinish(req) /\ req.room \in DOMAIN room_context
  /\ Len(sends) = 2 /\ ~sends[1].success

\* C9: _send_gmail never raises: unconfigured it returns a MOCKED success,
\* configured a provider exception comes back as {success:false, error}.
C9_SendNeverRaises ==
  lastOp = "send" =>
    /\ ~sout.raised
    /\ (~(composio_ok /\ account_id)) =>
         sout.success /\ sout.result = "MOCKED: Email would be sent to " \o sin.to
    /\ (composio_ok /\ account_id /\ sin.outcome = "exc") =>
         ~sout.success /\ sout.error # ""

C9_Witness ==
  lastOp = "send" /\ composio_ok /\ account_id /\ sin.outcome = "exc"

\* The library call for the input fails
ExtractLibFails(x) ==
  LET name == Lower(x.filename)
  IN \/ EndsWith(name, <<".", "p", "d", "f">>) /\ x.data # "pdf_bytes" /\ x.lib = "raise"
     \/ EndsWith(name, <<".", "d", "o", "c", "x">>) /\ x.data # "docx_bytes"

\* C10: _extract_text_from_upload is total: it returns a string for every
\* filename and content, a placeholder when the parser fails.
C10_ExtractTotal ==
  lastOp = "extract" =>
    /\ ~xout.raised
    /\ ExtractLibFails(xin) =>
         \E e \in {"PDFSyntaxError", "PackageNotFoundError"} :
           xout.val = "Error reading file: " \o e

C10_Witness ==
  lastOp = "extract" /\ ExtractLibFails(xin)
  /\ EndsWith(Lower(xin.filename), <<".", "d", "o", "c", "x">>)


\* C11: /upload answers a client error (4xx) when the uploaded file is empty
\* or its extracted text is only whitespace.
C11_EmptyUploadClientError ==
  (lastOp = "upload" /\ xin.filename # <<>>
     /\ (xin.data = "empty_bytes" \/ up.full.len = 0))
    => up.status >= 400 /\ up.status < 500


\* C12 (as stated): a stored context's created_at never changes afterwards,
\* not even by a later set-context for the same room.
C12_CreatedAtNeverChanges ==
  [][\A r \in DOMAIN room_context :
       r \in DOMAIN room_context'
       /\ room_context'[r].created_at = room_context[r].created_at]_vars

\* C12 (amended): created_at of a stored context changes only when an accepted
\* set-context for that same room replaces the context, and then to the
\* timestamp of that call; fetch and finish never change it.
C12_CreatedAtOnlyBySet ==
  [][\A r \in DOMAIN room_context :
       /\ r \in DOMAIN room_context'
       /\ room_context'[r].created_at # room_context[r].created_at =>
            /\ lastOp' = "set" /\ ctxStatus' = 200 /\ setRoom' = r
            /\ room_context'[r].created_at = clock]_vars

C12_Witness ==
  lastOp = "set" /\ ctxStatus = 200 /\ setRoom \in Rooms
  /\ prevSet[setRoom] # NoPayload
  /\ room_context[setRoom].created_at > 0


\* The required fields list_tools advertises for finish_and_email_transcript
FinishRequired == {"room_name", "transcript"}

\* C13: a finish_and_email_transcript call without the advertised-required
\* transcript argument is rejected with an RPC error.
C13_TranscriptRequired ==
  (lastOp = "mcp" /\ IsFinish(req) /\ "transcript" \in FinishRequired
     /\ req.transcript = NoneV /\ Truthy(req.room))
    => resp.kind = "error"


\* C14: the text returned by /upload, passed as resumeText to set-context for
\* R, comes back from fetch_interview_context(R) as the extracted text cut to
\* its first 200,000 characters.
C14_UploadRoundTrip ==
  (lastOp = "mcp" /\ IsFetch(req) /\ req.room \in Rooms
     /\ lastSet[req.room] # NoPayload
     /\ up.status = 200 /\ lastSet[req.room].resumeText = up.text)
    => /\ resp.kind = "result" /\ resp.rtag = "ctx"
       /\ resp.ctx.resume_text = Prefix(up.full, MaxResumeChars)

C14_Witness ==
  lastOp = "mcp" /\ IsFetch(req) /\ req.room \in Rooms
  /\ lastSet[req.room] # NoPayload
  /\ up.status = 200 /\ lastSet[req.room].resumeText = up.text
  /\ up.full.len > MaxResumeChars


\* C15: handlers run on one asyncio event loop and none awaits between its
\* store accesses, so each is one atomic step. An accepted set-context for A
\* leaves every other room's context as it was; /mcp calls never write the
\* store; a fetch for A returns A's whole current context; a finish for A
\* mails A's candidate.
C15_RoomIsolation ==
  [][/\ DOMAIN room_context' \subseteq DOMAIN room_context \cup {setRoom'}
     /\ \A r \in DOMAIN room_context \ {setRoom'} :
          r \in DOMAIN room_context' /\ room_context'[r] = room_context[r]
     /\ lastOp' = "mcp" => room_context' = room_context
     /\ (lastOp' = "mcp" /\ IsFetch(req') /\ req'.room \in DOMAIN room_context)
          => resp'.ctx = room_context[req'.room]
     /\ (lastOp' = "mcp" /\ IsFinish(req') /\ resp'.success)
          => sends'[1].to = room_context[req'.room].email]_vars

C15_Witness ==
  /\ lastOp = "mcp" /\ IsFetch(req) /\ req.room \in DOMAIN room_context
  /\ Cardinality(DOMAIN room_context) = 2

====
